---- MODULE Spec2Model ----
(***************************************************************************)
(* Crossword constraint-satisfaction engine (task3/generate.py):           *)
(* CrosswordCreator.solve = enforce_node_consistency; ac3; backtrack.      *)
(* Words are tuples of letters; code indices are 0-based, so word[i] of    *)
(* the code is w[i + 1] here.                                              *)
(***************************************************************************)
EXTENDS Integers, Sequences, FiniteSets, TLC

\* Largest vocabulary (number of words) explored.
MaxWords == 3

\* The words vocabularies are drawn from.
WordPool ==
    { <<"c", "a", "t">>, <<"c", "a", "r">>, <<"t", "a", "r">>,
      <<"r", "a", "t">>, <<"d", "o", "g">>, <<"a", "t">>, <<"g", "o">>,
      <<"t", "o">> }

Vocabularies == { W \in SUBSET WordPool : Cardinality(W) <= MaxWords }

\* Puzzle structures (the Crossword collaborator: slots, lengths, overlaps).
\* Cross: the spec's scenario, ACROSS and DOWN of length 3 crossing at (1, 1).
CrossPuzzle ==
    [ variables |-> {"A", "D"},
      length    |-> [s \in {"A", "D"} |-> 3],
      overlaps  |-> (<<"A", "D">> :> <<1, 1>>) @@ (<<"D", "A">> :> <<1, 1>>) ]

\* Two independent slots (no crossing), lengths 3 and 2.
IndepPuzzle ==
    [ variables |-> {"A", "D"},
      length    |-> ("A" :> 3) @@ ("D" :> 2),
      overlaps  |-> << >> ]

\* A chain: A (across, 3) crosses D (down, 3) at A[2] = D[0];
\* D crosses E (across, 2) at D[2] = E[1].
ChainPuzzle ==
    [ variables |-> {"A", "D", "E"},
      length    |-> ("A" :> 3) @@ ("D" :> 3) @@ ("E" :> 2),
      overlaps  |-> (<<"A", "D">> :> <<2, 0>>) @@ (<<"D", "A">> :> <<0, 2>>) @@
                    (<<"D", "E">> :> <<2, 1>>) @@ (<<"E", "D">> :> <<1, 2>>) ]

\* Three independent slots of length 2 (three rows, no column slot).
RowsPuzzle ==
    [ variables |-> {"A", "B", "C"},
      length    |-> [s \in {"A", "B", "C"} |-> 2],
      overlaps  |-> << >> ]

Puzzles == { CrossPuzzle, IndepPuzzle, ChainPuzzle, RowsPuzzle }

VARIABLES
    crossword,   \* self.crossword: variables, length, overlaps, words
    domains,     \* self.domains: slot -> set of words
    assignment,  \* the dict passed down backtrack: assigned slots -> word
    queue,       \* ac3's local queue of arcs
    stack,       \* backtrack's call stack: frames [var, values, idx, saved]
    pc,          \* position in solve()
    ac3ret,      \* return value of the ac3 call that last returned
    outcome,     \* "running", "solved" (assignment returned), "none", "error"
    taken,       \* history: domains and assignment when each frame's snapshot was taken
    arcOK,       \* history: the domains on which ac3 last returned True
    acStart,     \* history: the domains at the start of the current ac3 call
    lastRev      \* history: the last revise call, [arc, ret]

\* MinesweeperAI (task1b/minesweeper.py) and the board it plays on
VARIABLES
    board,       \* Minesweeper.mines: the cells that are mines
    moves_made,  \* MinesweeperAI.moves_made
    mines,       \* MinesweeperAI.mines
    safes,       \* MinesweeperAI.safes
    knowledge,   \* MinesweeperAI.knowledge
    move         \* the value make_safe_move last returned

\* transition_model (task2a/pagerank.py)
VARIABLES
    corpus,      \* page -> set of linked pages
    page,        \* the current page
    dist         \* the returned distribution: page -> numerator over dist.den

cwvars == << crossword, domains, assignment, queue, stack, pc, ac3ret, outcome,
             taken, arcOK, acStart, lastRev >>

msvars == << board, moves_made, mines, safes, knowledge, move >>

prvars == << corpus, page, dist >>

vars == << cwvars, msvars, prvars >>

----
\* The Crossword collaborator.

Variables == crossword.variables

Length(v) == crossword.length[v]

\* crossword.overlaps.get((x, y)) is not None
HasOverlap(x, y) == <<x, y>> \in DOMAIN crossword.overlaps

Overlap(x, y) == crossword.overlaps[<<x, y>>]

\* crossword.neighbors(var)
Neighbors(v) == { u \in Variables : u # v /\ HasOverlap(u, v) }

\* word[i] of the code (0-based)
At(w, i) == w[i + 1]

----
\* Pure helpers of CrosswordCreator.

EmptyAssignment == << >>

Assigned(a) == DOMAIN a

\* dict copy with a[var] = value
Extend(a, var, value) == (var :> value) @@ a

\* backtrack that leaves the failed assignment in place
DeleteKeep(a, var) == a

\* del a[var]
Delete(a, var) == [v \in (DOMAIN a) \ {var} |-> a[v]]

\* CrosswordCreator.__init__: every domain is a copy of the vocabulary
InitialDomains(cw) == [v \in cw.variables |-> cw.words]

\* enforce_node_consistency, with the comparison weakened to <
NodeConsistentLax(dom) ==
    [v \in DOMAIN dom |-> dom[v] \ { w \in dom[v] : Len(w) < Length(v) }]

\* enforce_node_consistency: drop every word whose length differs from the slot's
NodeConsistent(dom) ==
    [v \in DOMAIN dom |-> dom[v] \ { w \in dom[v] : Len(w) # Length(v) }]

\* revise would index a word out of range (IndexError)
ReviseRaises(dom, x, y) ==
    /\ HasOverlap(x, y)
    /\ dom[y] # {}
    /\ \E wx \in dom[x] :
         \/ Overlap(x, y)[1] >= Len(wx)
         \/ \E wy \in dom[y] : Overlap(x, y)[2] >= Len(wy)

\* the words revise(x, y) removes from x's domain
ToRemove(dom, x, y) ==
    IF ~HasOverlap(x, y) THEN {}
    ELSE { wx \in dom[x] :
             ~\E wy \in dom[y] :
                 At(wx, Overlap(x, y)[1]) = At(wy, Overlap(x, y)[2]) }

\* revise with `all` in place of `any`
ReviseAll(dom, x, y) ==
    IF ~HasOverlap(x, y) THEN dom
    ELSE [dom EXCEPT ![x] = { wx \in dom[x] :
             \A wy \in dom[y] :
                 At(wx, Overlap(x, y)[1]) = At(wy, Overlap(x, y)[2]) }]

\* revise that also makes y consistent with x
ReviseBoth(dom, x, y) ==
    [v \in DOMAIN dom |->
        IF v = x THEN dom[x] \ ToRemove(dom, x, y)
        ELSE IF v = y THEN dom[y] \ ToRemove(dom, y, x)
        ELSE dom[v]]

\* revise: the domains after revise(x, y)
Revise(dom, x, y) == [dom EXCEPT ![x] = dom[x] \ ToRemove(dom, x, y)]

\* revise that reports a change on every call
RevisedAlways(dom, x, y) == TRUE

\* revise that never reports a change
RevisedNever(dom, x, y) == FALSE

\* revise's return value
Revised(dom, x, y) == ToRemove(dom, x, y) # {}

\* all orderings of a finite set
RECURSIVE Orderings(_)
Orderings(S) ==
    IF S = {} THEN { << >> }
    ELSE UNION { { <<e>> \o t : t \in Orderings(S \ {e}) } : e \in S }

AllArcs == { <<x, y>> \in Variables \X Variables : y \in Neighbors(x) }

\* ac3 with arcs=None: for x in variables, for y in neighbors(x), in the
\* iteration order of the two sets (any order, arcs grouped by x)
InitialQueues ==
    { q \in Orderings(AllArcs) :
        \A i, k \in 1..Len(q) :
            (i < k /\ q[i][1] = q[k][1]) =>
                \A j \in i..k : q[j][1] = q[i][1] }

\* ac3 that re-enqueues nothing after a revision
RequeueNone(x, y) == {}

\* ac3: the arcs (z, x) appended after revise(x, y) changed x
Requeue(x, y) == { <<z, x>> : z \in Neighbors(x) \ {y} }

\* assignment_complete
AssignmentComplete(a) == Cardinality(Assigned(a)) = Cardinality(Variables)

\* consistent without the uniqueness check
ConsistentNoUnique(a) ==
    /\ \A v \in Assigned(a) : Len(a[v]) = Length(v)
    /\ \A v \in Assigned(a) : \A n \in Neighbors(v) \cap Assigned(a) :
           HasOverlap(v, n) =>
               At(a[v], Overlap(v, n)[1]) = At(a[n], Overlap(v, n)[2])

\* consistent without the overlap check
ConsistentNoOverlap(a) ==
    /\ \A u, v \in Assigned(a) : u # v => a[u] # a[v]
    /\ \A v \in Assigned(a) : Len(a[v]) = Length(v)

\* consistent: words unique, of the slot's length, agreeing at every overlap
Consistent(a) ==
    /\ \A u, v \in Assigned(a) : u # v => a[u] # a[v]
    /\ \A v \in Assigned(a) : Len(a[v]) = Length(v)
    /\ \A v \in Assigned(a) : \A n \in Neighbors(v) \cap Assigned(a) :
           HasOverlap(v, n) =>
               At(a[v], Overlap(v, n)[1]) = At(a[n], Overlap(v, n)[2])

\* count_conflicts that counts the neighbor words that agree at the overlap
CountAgreements(dom, a, var, word) ==
    Cardinality({ p \in (Neighbors(var) \ Assigned(a)) \X crossword.words :
                    /\ HasOverlap(var, p[1])
                    /\ p[2] \in dom[p[1]]
                    /\ At(word, Overlap(var, p[1])[1]) =
                           At(p[2], Overlap(var, p[1])[2]) })

\* order_domain_values.count_conflicts
CountConflicts(dom, a, var, word) ==
    Cardinality({ p \in (Neighbors(var) \ Assigned(a)) \X crossword.words :
                    /\ HasOverlap(var, p[1])
                    /\ p[2] \in dom[p[1]]
                    /\ At(word, Overlap(var, p[1])[1]) #
                           At(p[2], Overlap(var, p[1])[2]) })

\* order_domain_values: sorted(domain, key=count_conflicts); ties keep the
\* set's iteration order, which is any order
OrderDomainValues(dom, a, var) ==
    { s \in Orderings(dom[var]) :
        \A i, j \in 1..Len(s) :
            i < j => CountConflicts(dom, a, var, s[i]) <=
                         CountConflicts(dom, a, var, s[j]) }

Unassigned(a) == Variables \ Assigned(a)

\* sort_criteria with the degree not negated
CriteriaLeqFewest(dom, u, v) ==
    \/ Cardinality(dom[u]) < Cardinality(dom[v])
    \/ /\ Cardinality(dom[u]) = Cardinality(dom[v])
       /\ Cardinality(Neighbors(u)) <= Cardinality(Neighbors(v))

\* sort_criteria(u) <= sort_criteria(v), tuples compared lexicographically
CriteriaLeq(dom, u, v) ==
    \/ Cardinality(dom[u]) < Cardinality(dom[v])
    \/ /\ Cardinality(dom[u]) = Cardinality(dom[v])
       /\ Cardinality(Neighbors(u)) >= Cardinality(Neighbors(v))

\* select_unassigned_variable with max in place of min
SelectLargest(dom, a) ==
    { v \in Unassigned(a) : \A u \in Unassigned(a) : CriteriaLeq(dom, u, v) }

\* select_unassigned_variable: min(unassigned, key=sort_criteria); the first
\* minimum in list order, which is any minimum
SelectUnassignedVariable(dom, a) ==
    { v \in Unassigned(a) : \A u \in Unassigned(a) : CriteriaLeq(dom, v, u) }

\* saved_domains = {v: self.domains[v].copy() for v in self.domains}
Snapshot(dom) == [v \in DOMAIN dom |-> dom[v]]

\* restoring the initial domains instead of the snapshot
RestoreInitial(saved) == InitialDomains(crossword)

\* self.domains = saved_domains
Restore(saved) == saved

\* saved_domains before the first snapshot of a call (unbound local)
Unbound == << >>

\* no revise call has been made yet
NoRevise == [arc |-> << >>, ret |-> "none"]

\* Python's None
None == << >>

\* the other programs are not running
MSIdle ==
    /\ board = {}
    /\ moves_made = {}
    /\ mines = {}
    /\ safes = {}
    /\ knowledge = {}
    /\ move = None

PRIdle ==
    /\ corpus = << >>
    /\ page = 0
    /\ dist = None

CWIdle ==
    /\ crossword = [variables |-> {}, length |-> << >>, overlaps |-> << >>,
                    words |-> {}]
    /\ domains = << >>
    /\ assignment = << >>
    /\ queue = << >>
    /\ stack = << >>
    /\ pc = "idle"
    /\ ac3ret = "none"
    /\ outcome = "running"
    /\ taken = << >>
    /\ arcOK = << >>
    /\ acStart = << >>
    /\ lastRev = [arc |-> << >>, ret |-> "none"]

----
\* solve() as a state machine.

Init ==
    /\ crossword \in { [variables |-> p.variables, length |-> p.length,
                        overlaps |-> p.overlaps, words |-> W] :
                       p \in Puzzles, W \in Vocabularies }
    /\ domains = InitialDomains(crossword)
    /\ assignment = EmptyAssignment
    /\ queue = << >>
    /\ stack = << >>
    /\ pc = "node"
    /\ ac3ret = "none"
    /\ outcome = "running"
    /\ taken = << >>
    /\ arcOK = Unbound
    /\ acStart = Unbound
    /\ lastRev = NoRevise
    /\ MSIdle
    /\ PRIdle

\* solve: self.enforce_node_consistency()
EnforceNodeConsistency ==
    /\ pc = "node"
    /\ domains' = NodeConsistent(domains)
    /\ pc' = "ac3"
    /\ UNCHANGED << crossword, assignment, queue, stack, ac3ret, outcome,
                    taken, arcOK >>
    /\ UNCHANGED << acStart, lastRev, msvars, prvars >>

\* ac3(arcs=None): build the queue of all arcs
Ac3Start ==
    /\ pc = "ac3"
    /\ \E q \in InitialQueues : queue' = q
    /\ acStart' = domains
    /\ pc' = "ac3loop"
    /\ UNCHANGED << crossword, domains, assignment, stack, ac3ret, outcome,
                    taken, arcOK >>
    /\ UNCHANGED << lastRev, msvars, prvars >>

\* one iteration of ac3's while loop
Ac3Step ==
    /\ pc = "ac3loop"
    /\ queue # << >>
    /\ LET x == Head(queue)[1]
           y == Head(queue)[2]
           newdom == Revise(domains, x, y)
       IN  IF ReviseRaises(domains, x, y)
           THEN /\ pc' = "done"
                /\ outcome' = "error"
                /\ UNCHANGED << domains, queue, ac3ret, arcOK, lastRev >>
           ELSE /\ domains' = newdom
                /\ lastRev' = [arc |-> Head(queue),
                               ret |-> IF Revised(domains, x, y)
                                       THEN "true" ELSE "false"]
                /\ outcome' = outcome
                /\ IF Revised(domains, x, y) /\ newdom[x] = {}
                   THEN /\ ac3ret' = "false"
                        /\ arcOK' = Unbound
                        /\ pc' = "ac3ret"
                        /\ queue' = << >>
                   ELSE /\ \E app \in Orderings(IF Revised(domains, x, y)
                                                THEN Requeue(x, y) ELSE {}) :
                               queue' = Tail(queue) \o app
                        /\ UNCHANGED << pc, ac3ret, arcOK >>
    /\ UNCHANGED << crossword, assignment, stack, taken >>
    /\ UNCHANGED << acStart, msvars, prvars >>

\* ac3: the queue is empty, return True
Ac3Exit ==
    /\ pc = "ac3loop"
    /\ queue = << >>
    /\ ac3ret' = "true"
    /\ arcOK' = domains
    /\ pc' = "ac3ret"
    /\ UNCHANGED << crossword, domains, assignment, queue, stack, outcome,
                    taken >>
    /\ UNCHANGED << acStart, lastRev, msvars, prvars >>

\* back in the caller of ac3: solve discards the result and calls
\* backtrack(dict()); backtrack recurses on True and undoes on False
Ac3Return ==
    /\ pc = "ac3ret"
    /\ pc' = IF stack = << >> \/ ac3ret = "true" THEN "backtrack" ELSE "undo"
    /\ UNCHANGED << crossword, domains, assignment, queue, stack, ac3ret,
                    outcome, taken, arcOK >>
    /\ UNCHANGED << acStart, lastRev, msvars, prvars >>

\* entry of backtrack(assignment)
BacktrackEnter ==
    /\ pc = "backtrack"
    /\ IF AssignmentComplete(assignment)
       THEN \* return assignment; every caller tests `if result:` and returns it
            /\ IF stack = << >> \/ Assigned(assignment) # {}
               THEN pc' = "done" /\ outcome' = "solved"
               ELSE pc' = "undo" /\ outcome' = outcome
            /\ UNCHANGED << stack, taken >>
       ELSE /\ \E var \in SelectUnassignedVariable(domains, assignment) :
               \E values \in OrderDomainValues(domains, assignment, var) :
                   stack' = Append(stack, [var |-> var, values |-> values,
                                           idx |-> 1, saved |-> Unbound])
            /\ taken' = Append(taken, Unbound)
            /\ pc' = "loop"
            /\ outcome' = outcome
    /\ UNCHANGED << crossword, domains, assignment, queue, ac3ret, arcOK >>
    /\ UNCHANGED << acStart, lastRev, msvars, prvars >>

Top == stack[Len(stack)]

\* backtrack: one candidate of the for loop, up to the call of ac3
TryCandidate ==
    /\ pc = "loop"
    /\ Top.idx <= Len(Top.values)
    /\ LET value == Top.values[Top.idx]
           new_assignment == Extend(assignment, Top.var, value)
       IN  IF Consistent(new_assignment)
           THEN /\ stack' = [stack EXCEPT ![Len(stack)].saved = Snapshot(domains)]
                /\ taken' = [taken EXCEPT ![Len(stack)] =
                                [domains |-> domains, assignment |-> assignment]]
                /\ assignment' = new_assignment
                /\ pc' = "ac3"
           ELSE /\ stack' = [stack EXCEPT ![Len(stack)].idx = Top.idx + 1]
                /\ UNCHANGED << assignment, taken, pc >>
    /\ UNCHANGED << crossword, domains, queue, ac3ret, outcome, arcOK >>
    /\ UNCHANGED << acStart, lastRev, msvars, prvars >>

\* backtrack: ac3 failed or the recursive call returned None:
\* restore the domains, remove the assignment, go on with the next candidate
Undo ==
    /\ pc = "undo"
    /\ domains' = Restore(Top.saved)
    /\ assignment' = Delete(assignment, Top.var)
    /\ stack' = [stack EXCEPT ![Len(stack)].idx = Top.idx + 1]
    /\ pc' = "loop"
    /\ UNCHANGED << crossword, queue, ac3ret, outcome, taken, arcOK >>
    /\ UNCHANGED << acStart, lastRev, msvars, prvars >>

\* backtrack: the for loop is exhausted, return None
BacktrackFail ==
    /\ pc = "loop"
    /\ Top.idx > Len(Top.values)
    /\ stack' = SubSeq(stack, 1, Len(stack) - 1)
    /\ taken' = SubSeq(taken, 1, Len(taken) - 1)
    /\ IF Len(stack) = 1
       THEN pc' = "done" /\ outcome' = "none"
       ELSE pc' = "undo" /\ outcome' = outcome
    /\ UNCHANGED << crossword, domains, assignment, queue, ac3ret, arcOK >>
    /\ UNCHANGED << acStart, lastRev, msvars, prvars >>

Next ==
    \/ EnforceNodeConsistency
    \/ Ac3Start
    \/ Ac3Step
    \/ Ac3Exit
    \/ Ac3Return
    \/ BacktrackEnter
    \/ TryCandidate
    \/ Undo
    \/ BacktrackFail

Spec == Init /\ [][Next]_vars

\* solve() is one uninterrupted call tree: it keeps running until it returns
FairSpec == Spec /\ WF_vars(Next)

----
\* revise(x, y) called directly, on any pair of slots, any number of times,
\* on the domains left by enforce_node_consistency.

RVInit ==
    /\ crossword \in { [variables |-> p.variables, length |-> p.length,
                        overlaps |-> p.overlaps, words |-> W] :
                       p \in Puzzles, W \in Vocabularies }
    /\ domains = NodeConsistent(InitialDomains(crossword))
    /\ assignment = EmptyAssignment
    /\ queue = << >>
    /\ stack = << >>
    /\ pc = "revise"
    /\ ac3ret = "none"
    /\ outcome = "running"
    /\ taken = << >>
    /\ arcOK = Unbound
    /\ acStart = Unbound
    /\ lastRev = NoRevise
    /\ MSIdle
    /\ PRIdle

\* one call of revise(x, y)
ReviseCall ==
    /\ pc = "revise"
    /\ \E x, y \in Variables :
          IF ReviseRaises(domains, x, y)
          THEN /\ pc' = "done"
               /\ outcome' = "error"
               /\ UNCHANGED << domains, lastRev >>
          ELSE /\ domains' = Revise(domains, x, y)
               /\ lastRev' = [arc |-> <<x, y>>,
                              ret |-> IF Revised(domains, x, y)
                                      THEN "true" ELSE "false"]
               /\ UNCHANGED << pc, outcome >>
    /\ UNCHANGED << crossword, assignment, queue, stack, ac3ret, taken, arcOK,
                    acStart, msvars, prvars >>

RVNext == ReviseCall

RVSpec == RVInit /\ [][RVNext]_vars

----
\* Minesweeper and MinesweeperAI (task1b/minesweeper.py).
\* self.knowledge is a list; it is kept here as the set of its distinct
\* sentences: the code reads it only through membership and equality tests
\* and loops whose result does not depend on order or repetition.

\* Width of the boards explored; the boards have two rows.
MSWidth == 3

Cells == (0..1) \X (0..(MSWidth - 1))

\* the cells within one row and column of cell, cell excluded, in bounds
NeighborCells(cell) ==
    { c \in Cells :
        /\ c # cell
        /\ c[1] \in (cell[1] - 1)..(cell[1] + 1)
        /\ c[2] \in (cell[2] - 1)..(cell[2] + 1) }

\* Minesweeper.nearby_mines
NearbyMines(cell) == Cardinality(NeighborCells(cell) \cap board)

\* Sentence.known_mines without the comparison of len(cells) with count
KnownMinesAny(s) == IF s.count > 0 THEN s.cells ELSE {}

\* Sentence.known_mines
KnownMines(s) ==
    IF Cardinality(s.cells) = s.count /\ s.count > 0 THEN s.cells ELSE {}

\* Sentence.known_safes
KnownSafes(s) == IF s.count = 0 THEN s.cells ELSE {}

\* Sentence.mark_mine
SentenceMarkMine(s, cell) ==
    IF cell \in s.cells
    THEN [cells |-> s.cells \ {cell}, count |-> s.count - 1]
    ELSE s

\* Sentence.mark_safe
SentenceMarkSafe(s, cell) ==
    IF cell \in s.cells
    THEN [cells |-> s.cells \ {cell}, count |-> s.count]
    ELSE s

\* MinesweeperAI.mark_mine, on ai = [mines, safes, knowledge]
MarkMine(ai, cell) ==
    IF cell \in ai.mines THEN ai
    ELSE [ai EXCEPT !.mines = ai.mines \cup {cell},
                    !.knowledge = { SentenceMarkMine(s, cell) : s \in ai.knowledge }]

\* MinesweeperAI.mark_safe
MarkSafe(ai, cell) ==
    IF cell \in ai.safes THEN ai
    ELSE [ai EXCEPT !.safes = ai.safes \cup {cell},
                    !.knowledge = { SentenceMarkSafe(s, cell) : s \in ai.knowledge }]

\* update_knowledge: for m in known_mines: if m not in self.mines: mark_mine(m)
RECURSIVE MarkMines(_, _)
MarkMines(ai, cells) ==
    IF cells = {} THEN ai
    ELSE LET m == CHOOSE c \in cells : TRUE
         IN  MarkMines(MarkMine(ai, m), cells \ {m})

\* update_knowledge: for s in known_safes: if s not in self.safes: mark_safe(s)
RECURSIVE MarkSafes(_, _)
MarkSafes(ai, cells) ==
    IF cells = {} THEN ai
    ELSE LET c == CHOOSE c \in cells : TRUE
         IN  MarkSafes(MarkSafe(ai, c), cells \ {c})

\* update_knowledge: the sentences inferred from pairs s1, s2 with
\* s1.cells a subset of s2.cells
Inferred(K) ==
    { [cells |-> s2.cells \ s1.cells, count |-> s2.count - s1.count] :
        <<s1, s2>> \in { p \in K \X K :
                          /\ p[1] # p[2]
                          /\ p[1].cells \subseteq p[2].cells
                          /\ p[2].cells \ p[1].cells # {} } } \ K

\* MinesweeperAI.update_knowledge: the while loop, one iteration per unfolding
RECURSIVE UpdateKnowledge(_)
UpdateKnowledge(ai) ==
    LET sentences == { s \in ai.knowledge : s.cells # {} }
        known_mines == UNION { KnownMines(s) : s \in sentences }
        known_safes == UNION { KnownSafes(s) : s \in sentences }
        marked == MarkSafes(MarkMines(ai, known_mines), known_safes)
        temp_knowledge == { s \in marked.knowledge : s.cells # {} }
        new_sentences == Inferred(temp_knowledge)
        changed == \/ known_mines \ ai.mines # {}
                   \/ known_safes \ ai.safes # {}
                   \/ new_sentences # {}
        after == [marked EXCEPT !.knowledge = temp_knowledge \cup new_sentences]
    IN  IF changed THEN UpdateKnowledge(after) ELSE after

\* the game starts: any placement of mines, an AI that knows nothing
MSInit ==
    /\ board \in SUBSET Cells
    /\ moves_made = {}
    /\ mines = {}
    /\ safes = {}
    /\ knowledge = {}
    /\ move = None
    /\ CWIdle
    /\ PRIdle

\* MinesweeperAI.add_knowledge(cell, count) for a cell that is not a mine and
\* the count the board reports for it
AddKnowledge ==
    /\ \E cell \in Cells \ board :
         LET count == NearbyMines(cell)
             ai == MarkSafe([mines |-> mines, safes |-> safes,
                             knowledge |-> knowledge], cell)
             neighbors == NeighborCells(cell)
             adjusted_count == count - Cardinality(neighbors \cap ai.mines)
             adjusted_neighbors == (neighbors \ ai.mines) \ ai.safes
             withNew == IF adjusted_neighbors # {}
                        THEN [ai EXCEPT !.knowledge = ai.knowledge \cup
                                 { [cells |-> adjusted_neighbors,
                                    count |-> adjusted_count] }]
                        ELSE ai
             final == UpdateKnowledge(withNew)
         IN  /\ moves_made' = moves_made \cup {cell}
             /\ mines' = final.mines
             /\ safes' = final.safes
             /\ knowledge' = final.knowledge
    /\ move' = None
    /\ UNCHANGED << board, cwvars, prvars >>

\* MinesweeperAI.make_safe_move: the first cell of self.safes (in the set's
\* iteration order, any order) that is not in moves_made, else None
MakeSafeMove ==
    /\ IF safes \ moves_made # {}
       THEN move' \in safes \ moves_made
       ELSE move' = None
    /\ UNCHANGED << board, moves_made, mines, safes, knowledge, cwvars, prvars >>

MSNext ==
    \/ AddKnowledge
    \/ MakeSafeMove

MSSpec == MSInit /\ [][MSNext]_vars

----
\* transition_model (task2a/pagerank.py). Probabilities are exact rationals:
\* a distribution is [num |-> page -> numerator, den |-> common denominator].

\* Largest corpus (number of pages) explored.
MaxPages == 3

\* DAMPING = 0.85 = DampingNum / DampingDen
DampingNum == 85

DampingDen == 100

\* crawl: every page maps to a set of other pages of the corpus
Corpora ==
    UNION { { c \in [1..n -> SUBSET (1..n)] : \A p \in 1..n : p \notin c[p] } :
            n \in 1..MaxPages }

\* transition_model(corpus, page, DAMPING)
TransitionModel(c, pg) ==
    LET N == Cardinality(DOMAIN c)
        L == Cardinality(c[pg])
    IN  IF c[pg] = {}
        THEN [den |-> DampingDen * N,
              num |-> [p \in DOMAIN c |-> DampingDen - DampingNum]]
        ELSE [den |-> DampingDen * N * L,
              num |-> [p \in DOMAIN c |->
                          (DampingDen - DampingNum) * L +
                              (IF p \in c[pg] THEN DampingNum * N ELSE 0)]]

PRInit ==
    /\ corpus \in Corpora
    /\ page \in DOMAIN corpus
    /\ dist = None
    /\ CWIdle
    /\ MSIdle

\* one call of transition_model(corpus, page, DAMPING)
CallTransitionModel ==
    /\ dist = None
    /\ dist' = TransitionModel(corpus, page)
    /\ UNCHANGED << corpus, page, cwvars, msvars >>

PRNext == CallTransitionModel

PRSpec == PRInit /\ [][PRNext]_vars

TypeOK ==
    /\ pc \in {"node", "ac3", "ac3loop", "ac3ret", "backtrack", "loop", "undo",
               "done", "revise"}
    /\ outcome \in {"running", "solved", "none", "error"}
    /\ ac3ret \in {"none", "true", "false"}
    /\ DOMAIN domains = Variables
    /\ Assigned(assignment) \subseteq Variables
    /\ Len(taken) = Len(stack)
    /\ (pc = "done") = (outcome # "running")

----
\* Properties of solve().

\* a is a complete assignment of vocabulary words satisfying every constraint
IsSolution(a) ==
    /\ DOMAIN a = Variables
    /\ \A v \in Variables : a[v] \in crossword.words /\ Len(a[v]) = Length(v)
    /\ \A u, v \in Variables : u # v => a[u] # a[v]
    /\ \A x \in Variables : \A y \in Neighbors(x) :
           At(a[x], Overlap(x, y)[1]) = At(a[y], Overlap(x, y)[2])

SolutionExists == \E a \in [Variables -> crossword.words] : IsSolution(a)

\* the candidate on top of the stack was snapshotted and has since failed
SiblingPending ==
    /\ pc = "loop"
    /\ stack # << >>
    /\ taken[Len(taken)] # Unbound

\* C1 (backtracking soundness): an assignment returned by solve() maps every
\* slot to one vocabulary word of the slot's length, the words are pairwise
\* distinct and agree at every overlap.
C1_Soundness == outcome = "solved" => IsSolution(assignment)

C1_Witness ==
    /\ outcome = "solved"
    /\ AllArcs # {}
    /\ Cardinality(crossword.words) >= 2

\* C2 (backtracking completeness): when a constraint-satisfying complete
\* assignment exists, solve() does not return None: it returns an assignment.
C2_Completeness == (pc = "done" /\ SolutionExists) => outcome = "solved"

C2_Witness ==
    /\ pc = "done"
    /\ SolutionExists
    /\ outcome = "solved"
    /\ \E v \in Variables : Cardinality(domains[v]) >= 2

\* some slot has no vocabulary word of its length
NoFit(v) == ~\E w \in crossword.words : Len(w) = Length(v)

\* C3: when the vocabulary has no word of some slot's length, that slot's
\* domain is empty after enforce_node_consistency, no error is raised, and
\* solve() terminates returning None.
C3_NoWordOfLength ==
    /\ [](\A v \in Variables : NoFit(v) =>
             /\ pc # "node" => domains[v] = {}
             /\ outcome \notin {"error", "solved"})
    /\ ((\E v \in Variables : NoFit(v)) ~> (pc = "done" /\ outcome = "none"))

C3_Witness ==
    /\ \E v \in Variables : NoFit(v)
    /\ \E v \in Variables : ~NoFit(v)
    /\ pc = "done"
    /\ outcome = "none"

ArcConsistent(dom) ==
    \A x \in Variables : \A y \in Neighbors(x) : \A wx \in dom[x] :
        \E wy \in dom[y] : At(wx, Overlap(x, y)[1]) = At(wy, Overlap(x, y)[2])

\* C4 (arc consistency soundness): when ac3 seeded with all arcs returns True,
\* every word of every domain has a matching word in each neighbor's domain.
C4_ArcConsistency == (pc = "ac3ret" /\ ac3ret = "true") => ArcConsistent(domains)

C4_Witness ==
    /\ pc = "ac3ret"
    /\ ac3ret = "true"
    /\ stack = << >>
    /\ domains # NodeConsistent(InitialDomains(crossword))
    /\ \A v \in Variables : domains[v] # {}

\* C5: whenever ac3 returns True, every slot's domain is non-empty (a domain
\* that is empty when the queue empties makes ac3 return False).
C5_TrueMeansNonEmpty ==
    (pc = "ac3ret" /\ ac3ret = "true") => \A v \in Variables : domains[v] # {}

NodeConsistentDomains(dom) ==
    \A v \in Variables : \A w \in dom[v] : Len(w) = Length(v)

\* C6 (node consistency invariant): after enforce_node_consistency, in every
\* later state of solve(), every word of every domain (and of every snapshot)
\* has exactly the slot's length.
C6_NodeConsistency ==
    pc # "node" =>
        /\ NodeConsistentDomains(domains)
        /\ \A k \in 1..Len(stack) :
               stack[k].saved # Unbound => NodeConsistentDomains(stack[k].saved)

C6_Witness ==
    /\ SiblingPending
    /\ \E v \in Variables : \E w \in crossword.words : Len(w) # Length(v)
    /\ \E v \in Variables : domains[v] # {}

\* C7 (domain monotonicity): every step either shrinks domains or sets them to
\* a snapshot taken earlier; every domain is always a subset of the vocabulary.
C7_Monotonicity ==
    /\ [][ \/ \A v \in Variables : domains'[v] \subseteq domains[v]
           \/ \E k \in 1..Len(taken) :
                  taken[k] # Unbound /\ domains' = taken[k].domains ]_vars
    /\ [](\A v \in Variables : domains[v] \subseteq crossword.words)

C7_Witness ==
    /\ SiblingPending
    /\ domains # InitialDomains(crossword)
    /\ arcOK = domains
    /\ \A v \in Variables : domains[v] # {}

\* C8 (snapshot/restore exactness): after a snapshotted candidate failed and
\* before the next one is tried, the domains and the assignment are exactly
\* what they were when the snapshot was taken.
C8_RestoreExact ==
    SiblingPending =>
        /\ domains = taken[Len(taken)].domains
        /\ assignment = taken[Len(taken)].assignment

C8_Witness ==
    /\ SiblingPending
    /\ Top.idx <= Len(Top.values)
    /\ Len(stack) >= 1
    /\ Cardinality(Assigned(assignment)) = Len(stack) - 1

\* C9 (assignment invariant): the assignment held by backtrack always has
\* pairwise distinct words that agree at the overlap of every assigned pair
\* of neighbors.
C9_AssignmentInvariant ==
    /\ \A u, v \in Assigned(assignment) : u # v => assignment[u] # assignment[v]
    /\ \A x \in Assigned(assignment) : \A y \in Neighbors(x) \cap Assigned(assignment) :
           At(assignment[x], Overlap(x, y)[1]) = At(assignment[y], Overlap(x, y)[2])

C9_Witness ==
    /\ outcome = "running"
    /\ \E x \in Assigned(assignment) : Neighbors(x) \cap Assigned(assignment) # {}

\* C10 (idempotence of re-propagation): an ac3 run on domains on which ac3
\* has returned True changes no domain and returns True.
C10_Idempotence ==
    [][(pc = "ac3loop" /\ domains = arcOK) =>
           (domains' = domains /\ ac3ret' # "false")]_vars

C10_Witness ==
    /\ pc = "ac3ret"
    /\ ac3ret = "true"
    /\ stack # << >>
    /\ AllArcs # {}
    /\ domains # NodeConsistent(InitialDomains(crossword))

\* the words assigned to some slot
Used(a) == { a[v] : v \in DOMAIN a }

\* a step of backtrack that assigns a word to a slot
Assigns == pc = "loop" /\ Assigned(assignment') # Assigned(assignment) /\ pc' = "ac3"

\* the word just assigned is the first word of the slot's candidate order that
\* no other slot uses
FirstAvailable ==
    LET values == Top.values
        w == assignment'[Top.var]
    IN  \E k \in 1..Len(values) :
            /\ values[k] = w
            /\ w \notin Used(assignment)
            /\ \A i \in 1..(k - 1) : values[i] \in Used(assignment)

\* C11 as stated: in a puzzle with no crossings ac3 removes no word, every
\* word assigned is the first of the slot's candidate order that no other slot
\* uses, and when a solution exists no assignment is undone.
C11_NoCrossings_Original ==
    [][AllArcs = {} =>
          /\ domains' # domains => pc = "node"
          /\ Assigns => FirstAvailable
          /\ SolutionExists => pc' # "undo"]_vars

\* C11 (amended): in a puzzle with no crossings ac3 removes no word; when a
\* solution exists, every word assigned is the first of the slot's candidate
\* order that no other slot uses, and no assignment is undone.
C11_NoCrossings ==
    [][AllArcs = {} =>
          /\ domains' # domains => pc = "node"
          /\ SolutionExists => (Assigns => FirstAvailable) /\ pc' # "undo"]_vars

C11_Witness ==
    /\ AllArcs = {}
    /\ outcome = "solved"
    /\ \E k \in 1..Len(stack) : stack[k].idx > 1
    /\ Cardinality(Used(assignment)) >= 3

\* an iteration of ac3's while loop that does not raise
Ac3Iteration == pc = "ac3loop" /\ queue # << >> /\ outcome' # "error"

\* the words of x's domain that have a matching word in y's domain
Supported(dom, x, y) ==
    { w \in dom[x] :
        \E wy \in dom[y] : At(w, Overlap(x, y)[1]) = At(wy, Overlap(x, y)[2]) }

\* C14 (termination): solve() ends in one of its two outcomes, a complete
\* assignment or None; every ac3 call returns, and an ac3 iteration appends
\* arcs to the queue only when its revise strictly shrank a domain.
C14_Termination ==
    /\ <>(pc = "done" /\ outcome \in {"solved", "none"})
    /\ [](pc = "ac3loop" => <>(pc = "ac3ret"))
    /\ [][(Ac3Iteration /\ Len(queue') >= Len(queue)) =>
             /\ domains'[Head(queue)[1]] \subseteq domains[Head(queue)[1]]
             /\ domains'[Head(queue)[1]] # domains[Head(queue)[1]]]_vars

C14_Witness ==
    /\ pc = "done"
    /\ outcome \in {"solved", "none"}
    /\ stack # << >>
    /\ domains # NodeConsistent(InitialDomains(crossword))
    /\ Cardinality(Variables) = 3

\* C17 (AC-3 confluence): the results of AC-3 from the given domains and arcs
\* when the next arc is taken from any position of the queue
RECURSIVE AnyOrderResults(_, _)
AnyOrderResults(dom, arcs) ==
    IF arcs = << >> THEN { [ret |-> "true", domains |-> dom] }
    ELSE UNION {
           LET x == arcs[i][1]
               y == arcs[i][2]
               rest == SubSeq(arcs, 1, i - 1) \o SubSeq(arcs, i + 1, Len(arcs))
               newdom == Revise(dom, x, y)
           IN  IF Revised(dom, x, y) /\ newdom[x] = {}
               THEN { [ret |-> "false", domains |-> None] }
               ELSE IF Revised(dom, x, y)
               THEN AnyOrderResults(newdom,
                       rest \o CHOOSE q \in Orderings(Requeue(x, y)) : TRUE)
               ELSE AnyOrderResults(newdom, rest)
           : i \in 1..Len(arcs) }

\* C17: whatever the order in which arcs are taken, AC-3 from the same start
\* has the outcome of the FIFO ac3 and, on success, its final domains.
C17_Confluence ==
    pc = "ac3ret" =>
        AnyOrderResults(acStart, CHOOSE q \in Orderings(AllArcs) : TRUE) =
            { [ret |-> ac3ret,
               domains |-> IF ac3ret = "true" THEN domains ELSE None] }

C17_Witness ==
    /\ pc = "ac3ret"
    /\ ac3ret = "true"
    /\ domains # acStart
    /\ Cardinality(AllArcs) >= 4

\* C18 (AC-3 step rule): ac3 revises the arc at the head of the queue; when the
\* revision changed x's domain and left it non-empty, exactly the arcs (z, x),
\* z a neighbor of x other than y, are appended to the tail; when it changed
\* nothing, nothing is appended.
C18_StepRule ==
    [][(Ac3Iteration /\ pc' = "ac3loop") =>
          LET x == Head(queue)[1]
              y == Head(queue)[2]
              n == Len(queue) - 1
              app == SubSeq(queue', n + 1, Len(queue'))
          IN  /\ lastRev'.arc = Head(queue)
              /\ \A v \in Variables \ {x} : domains'[v] = domains[v]
              /\ SubSeq(queue', 1, n) = Tail(queue)
              /\ IF domains'[x] # domains[x]
                 THEN /\ Len(app) = Cardinality(Neighbors(x) \ {y})
                      /\ { app[i] : i \in 1..Len(app) } =
                             { <<z, x>> : z \in Neighbors(x) \ {y} }
                 ELSE app = << >>]_vars

C18_Witness ==
    /\ pc = "ac3loop"
    /\ lastRev.ret = "true"
    /\ queue # << >>
    /\ queue[Len(queue)][2] = lastRev.arc[1]
    /\ \E i, j \in 1..Len(queue) : i < j /\ queue[i] = queue[j]

\* C19 (fail at once): the iteration of ac3 whose revise empties x's domain
\* returns False; no arc is revised and no domain changes after it in the call.
C19_FailAtOnce ==
    /\ [][(Ac3Iteration /\ domains[Head(queue)[1]] # {}
                       /\ domains'[Head(queue)[1]] = {}) =>
             (pc' = "ac3ret" /\ ac3ret' = "false")]_vars
    /\ [][pc = "ac3ret" => (domains' = domains /\ lastRev' = lastRev)]_vars

C19_Witness ==
    /\ pc = "ac3ret"
    /\ ac3ret = "false"
    /\ domains[lastRev.arc[1]] = {}
    /\ \E x \in Variables : \E y \in Neighbors(x) :
           domains[x] # {} /\ Supported(domains, x, y) # domains[x]

\* C20 (MRV then degree): the slot backtrack selects is unassigned, has a
\* domain of minimal size among the unassigned slots, and has the most
\* neighbors among the unassigned slots of that domain size.
C20_Selection ==
    [][(pc = "backtrack" /\ pc' = "loop") =>
          LET var == stack'[Len(stack')].var
          IN  /\ var \in Variables \ DOMAIN assignment
              /\ \A u \in Variables \ DOMAIN assignment :
                     /\ Cardinality(domains[var]) <= Cardinality(domains[u])
                     /\ Cardinality(domains[u]) = Cardinality(domains[var]) =>
                            Cardinality(Neighbors(u)) <= Cardinality(Neighbors(var))]_vars

C20_Witness ==
    /\ pc = "loop"
    /\ taken[Len(taken)] = Unbound
    /\ Top.idx = 1
    /\ \E u \in Variables \ (DOMAIN assignment \cup {Top.var}) :
           /\ Cardinality(domains[u]) = Cardinality(domains[Top.var])
           /\ Cardinality(Neighbors(u)) < Cardinality(Neighbors(Top.var))

\* C15 (revise): revise(x, y) on neighbors leaves in x's domain exactly the
\* words that have a matching word in y's domain, and returns True exactly
\* when x's domain changed.
C15_Revise ==
    [][(pc = "revise" /\ outcome' # "error") =>
          LET x == lastRev'.arc[1]
              y == lastRev'.arc[2]
          IN  /\ y \in Neighbors(x) => domains'[x] = Supported(domains, x, y)
              /\ (lastRev'.ret = "true") <=> (domains'[x] # domains[x])]_vars

C15_Witness ==
    /\ pc = "revise"
    /\ lastRev.ret = "true"
    /\ lastRev.arc[2] \in Neighbors(lastRev.arc[1])
    /\ domains[lastRev.arc[2]] = {}
    /\ domains[lastRev.arc[1]] = {}

\* C16 (frame of revise): revise(x, y) changes no domain but x's, and for
\* slots that are not neighbors it changes nothing and returns False.
C16_ReviseFrame ==
    [][(pc = "revise" /\ outcome' # "error") =>
          LET x == lastRev'.arc[1]
              y == lastRev'.arc[2]
          IN  /\ \A v \in Variables \ {x} : domains'[v] = domains[v]
              /\ y \notin Neighbors(x) =>
                     (domains' = domains /\ lastRev'.ret = "false")]_vars

C16_Witness ==
    /\ pc = "revise"
    /\ lastRev.ret = "false"
    /\ lastRev.arc # << >>
    /\ lastRev.arc[1] # lastRev.arc[2]
    /\ lastRev.arc[2] \notin Neighbors(lastRev.arc[1])
    /\ Neighbors(lastRev.arc[1]) # {}
    /\ \A v \in Variables : domains[v] # {}

\* C12 (Minesweeper AI soundness): after add_knowledge calls on non-mine cells
\* with their true counts, every cell of ai.mines is a mine, no cell of
\* ai.safes is a mine, and make_safe_move returns None or a cell of ai.safes
\* that is not in moves_made and is not a mine.
C12_MinesweeperSound ==
    /\ mines \subseteq board
    /\ safes \cap board = {}
    /\ move # None => (move \in safes /\ move \notin moves_made /\ move \notin board)

C12_Witness ==
    /\ mines # {}
    /\ move # None
    /\ move \notin moves_made
    /\ Cardinality(moves_made) >= 2

\* the sum of f over the set S
RECURSIVE SumOver(_, _)
SumOver(f, S) ==
    IF S = {} THEN 0
    ELSE LET p == CHOOSE q \in S : TRUE IN f[p] + SumOver(f, S \ {p})

\* C13: transition_model returns a probability distribution over the pages of
\* the corpus, also for a page without links: one non-negative value per page,
\* the values summing to 1.
C13_Distribution ==
    dist # None =>
        /\ DOMAIN dist.num = DOMAIN corpus
        /\ \A p \in DOMAIN corpus : dist.num[p] >= 0
        /\ SumOver(dist.num, DOMAIN corpus) = dist.den

\* the words of the domains of var's unassigned neighbors that disagree with
\* word at the overlap, as pairs (neighbor, word)
Eliminated(var, word) ==
    UNION { { <<n, nw>> : nw \in { u \in domains[n] :
                  At(word, Overlap(var, n)[1]) # At(u, Overlap(var, n)[2]) } } :
            n \in Neighbors(var) \ DOMAIN assignment }

\* C21 (least-constraining value): the order backtrack gets from
\* order_domain_values holds every word of the slot's domain exactly once, in
\* non-decreasing order of the number of words it eliminates from the domains
\* of the unassigned neighbors; the call changes no domain.
C21_ValueOrder ==
    [][(pc = "backtrack" /\ pc' = "loop") =>
          LET var == stack'[Len(stack')].var
              values == stack'[Len(stack')].values
          IN  /\ { values[i] : i \in 1..Len(values) } = domains[var]
              /\ Len(values) = Cardinality(domains[var])
              /\ \A i, j \in 1..Len(values) :
                     i < j => Cardinality(Eliminated(var, values[i])) <=
                                  Cardinality(Eliminated(var, values[j]))
              /\ domains' = domains]_vars

C21_Witness ==
    /\ pc = "loop"
    /\ Top.idx = 1
    /\ taken[Len(taken)] = Unbound
    /\ Len(Top.values) >= 2
    /\ Cardinality(Eliminated(Top.var, Top.values[1])) <
           Cardinality(Eliminated(Top.var, Top.values[Len(Top.values)]))

\* C22 (propagation is inert during search): once the initial ac3 has
\* returned, no step of solve() changes a domain, and every ac3 call made by
\* backtrack returns True, so backtrack never undoes because of ac3.
C22_InertPropagation ==
    /\ [][(stack # << >> \/ pc \in {"ac3ret", "backtrack"}) =>
             domains' = domains]_vars
    /\ []((pc = "ac3ret" /\ stack # << >>) => ac3ret = "true")

C22_Witness ==
    /\ pc = "done"
    /\ outcome = "solved"
    /\ AllArcs # {}
    /\ domains = arcOK
    /\ \E v \in Variables : domains[v] # {assignment[v]}
    /\ \E k \in 1..Len(stack) : stack[k].idx > 1

\* C23: when the initial ac3 call returns False, backtrack tries no candidate:
\* the root call selects a slot with an empty domain, the assignment stays
\* empty, no further call is made, and solve() returns None.
C23_InitialFailure ==
    ac3ret = "false" =>
        /\ assignment = EmptyAssignment
        /\ pc \in {"ac3ret", "backtrack", "loop", "done"}
        /\ Len(stack) <= 1
        /\ \A k \in 1..Len(stack) :
               domains[stack[k].var] = {} /\ stack[k].values = << >>
        /\ pc = "done" => outcome = "none"

C23_Witness ==
    /\ ac3ret = "false"
    /\ pc = "done"
    /\ outcome = "none"
    /\ \E v \in Variables : domains[v] # {}
====
